---- MODULE Spec2Model ----
(***************************************************************************)
(* Model of Product-finder-count.py: a Streamlit script that reads a CSV   *)
(* of base URLs, splits them into 4 batches, paginates every URL's         *)
(* /products.json endpoint under a per-URL wall-clock budget, and offers   *)
(* one CSV export per batch plus one combined export.                      *)
(*                                                                         *)
(* Time advances only inside a page fetch (requests.get blocks the single  *)
(* thread of control); every other statement takes no time.                *)
(* requests >= 2.27 is assumed, where a body that is not JSON raises       *)
(* requests.exceptions.JSONDecodeError, a RequestException.                *)
(***************************************************************************)
EXTENDS Integers, Sequences, FiniteSets, TLC

\* ------------------------------------------------------------ bounds
MaxLinks == 8       \* rows of the uploaded CSV: 0..MaxLinks
NumUrls  == 5       \* distinct base URLs; row r > NumUrls repeats an earlier URL
MaxPage  == 2       \* an endpoint has 0..MaxPage non-empty pages (or never ends)

\* ------------------------------------------------- program constants
max_total_time == 35    \* collect_all_products(base_url, max_total_time=35)
num_batches    == 4     \* num_batches = 4

\* ------------------------------------------------------- environment
\* The catalogue size of an endpoint that never returns an empty page.
Endless == 0 - 1

\* Wall-clock cost of one page fetch: instantaneous at the model's grain,
\* half of an overrun, exactly the budget, or just over it.
HalfOver == (max_total_time + 1) \div 2

Durations == {0, HalfOver, max_total_time, max_total_time + 1}

\* The liveness model: every fetch costs a positive amount of time.
PositiveDurations == {HalfOver, max_total_time + 1}

\* The safety model lets slow fetches add up to two overruns per run; past
\* that every fetch is instantaneous.
MaxClock == 2 * (max_total_time + 1)

\* Page counter cap of the liveness model; the budget ends every pagination
\* well before it.
LivePageCap == MaxPage + 2

\* What requests.get / raise_for_status / response.json can do.
Outcomes == {"ok", "timeout", "connection", "http_status", "bad_json"}

BaseUrl(r) == <<"https://shop", ((r - 1) % NumUrls) + 1>>

Absent == <<>>

Upstream == <<"https://upstream", 0>>

\* Number of records on a non-empty page.
PageLen(p) == IF p % 2 = 1 THEN 2 ELSE 1

\* The records the endpoint serves on page p of url: fresh dicts; the second
\* record of a page already carries a source_url field of the shop's own.
Catalog(url, p) ==
  [k \in 1..PageLen(p) |->
     [id |-> <<url, p, k>>, source_url |-> IF k = 2 THEN Upstream ELSE Absent]]

\* Number of non-empty pages the endpoint of url has.
SitePages(url) == url[2] % (MaxPage + 1)

\* JSON body of page p of a site with `site` non-empty pages.
Body(site, url, p) ==
  IF site = Endless \/ p <= site THEN Catalog(url, p) ELSE <<>>

\* -------------------------------------------------------- pure parts
Min(a, b) == IF a <= b THEN a ELSE b

\* Python's s[lo:hi] for 0 <= lo, hi (0-based, end exclusive, clipped).
Slice(s, lo, hi) == SubSeq(s, Min(lo, Len(s)) + 1, Min(hi, Len(s)))

RECURSIVE Flatten(_)
Flatten(ss) == IF ss = <<>> THEN <<>> ELSE Head(ss) \o Flatten(Tail(ss))

\* Mutant: the except branches hand the body back as if the request worked.
FetchProductsIgnoringFailure(outcome, body) == body

\* fetch_products: the list handed back to the collector.
FetchProducts(outcome, body) ==
  IF outcome = "ok" THEN body ELSE <<>>

\* fetch_products: what it reports to the user-facing log.
FetchMessage(outcome) ==
  CASE outcome = "ok"      -> "none"
    [] outcome = "timeout" -> "warning: page timed out"
    [] OTHER               -> "error: request failed"

\* Mutant: the budget test allows one time unit too many.
OverBudgetLate(t, start) == t - start > max_total_time + 1

\* Mutant: the subtraction of the budget test is the wrong way round.
OverBudgetFlipped(t, start) == start - t > max_total_time

\* collect_all_products: the budget test at the head of every iteration.
OverBudget(t, start) == t - start > max_total_time

\* Mutant: the overrun branch hands back what was gathered so far.
OverrunPartial(products) == products

\* collect_all_products: what is returned when the budget test fires.
OverrunResult(products) == <<>>

\* Mutant: the timer is not restarted for the next URL.
StartTimeKept(t, previous) == previous

\* collect_all_products: start_time = time.time() on entry.
StartTime(t, previous) == t

\* Mutant: setdefault-style stamping keeps a source_url the record has.
StampMissingOnly(products, base_url) ==
  [k \in 1..Len(products) |->
     IF products[k].source_url = <<>>
       THEN [products[k] EXCEPT !.source_url = base_url]
       ELSE products[k]]

\* collect_all_products: product['source_url'] = base_url for each product.
Stamp(products, base_url) ==
  [k \in 1..Len(products) |-> [products[k] EXCEPT !.source_url = base_url]]

\* Mutant: the batch size is rounded up instead of down.
BatchSizeCeil(n) == (n + num_batches - 1) \div num_batches

\* batch_size = len(links) // num_batches
BatchSize(n) == n \div num_batches

\* batches = [links[i*batch_size:(i+1)*batch_size] for i in range(num_batches)]
Batches(ls) ==
  [b \in 1..num_batches |->
     Slice(ls, (b - 1) * BatchSize(Len(ls)), b * BatchSize(Len(ls)))]

\* Mutant: the column test is inverted.
MissingLinkInverted(csv) == "link" \in csv.columns

\* 'link' not in csv_data.columns
MissingLink(csv) == "link" \notin csv.columns

\* csv_data['link'].tolist()
LinkColumn(csv) == [r \in 1..csv.rows |-> BaseUrl(r)]

\* Mutant: the batch is put in front of the combined list.
ExtendAllFront(all, batch_data) == batch_data \o all

\* all_results.extend(batch_data)
ExtendAll(all, batch_data) == all \o batch_data

\* Mutant: no download is offered while the run goes on.
BatchExportDeferred(ex, n, batch_data) == ex

\* the per-batch table and download button, under `if batch_data:`
BatchExport(ex, n, batch_data) ==
  IF batch_data # <<>>
    THEN Append(ex, [file |-> <<"batch", n>>, data |-> batch_data])
    ELSE ex

\* the combined download button, under `if all_results:`
FinalExport(ex, all) ==
  IF all # <<>>
    THEN Append(ex, [file |-> <<"all", 0>>, data |-> all])
    ELSE ex

\* process_batch: enumerate(batch, start=1) moves to the next URL.
NextIndex(k) == k + 1

\* -------------------------------------------------------------- state
VARIABLES
  pc,            \* position of the script
  csv,           \* the uploaded file: its columns and number of rows
  links,         \* links
  batches,       \* batches
  button,        \* the collect button has been rendered
  all_results,   \* all_results
  batch_num,     \* batch_num of the orchestrator's loop
  batch_data,    \* batch_data of process_batch
  i,             \* i of process_batch's loop
  progress,      \* progress_bar value <<i, total_urls>>
  base_url,      \* base_url of the collector
  products,      \* products of collect_all_products
  page,          \* page of collect_all_products
  start_time,    \* start_time of collect_all_products
  now,           \* time.time()
  result,        \* value returned by collect_all_products
  exports,       \* download buttons rendered so far, in order
  message,       \* latest line of the user-facing log
  site,          \* catalogue size of the endpoint being paginated
  requested,     \* history: pages requested from the current URL, in order
  raw,           \* history: non-empty pages received from the current URL
  failed,        \* history: outcome of the last fetch of the current URL
  own_elapsed,   \* history: fetch time spent on the current URL alone
  checks,        \* history: budget tests made for the current URL
  checked_at,    \* history: own_elapsed at the latest budget test
  exit,          \* history: how the collector left its loop
  collected,     \* history: one entry per collector return
  completed      \* history: batch_data of every finished batch

vars == <<pc, csv, links, batches, button, all_results, batch_num, batch_data,
          i, progress, base_url, products, page, start_time, now, result,
          exports, message, site, requested, raw, failed, own_elapsed, checks,
          checked_at, exit, collected, completed>>

runVars == <<all_results, batch_num, batch_data, i, progress>>
urlVars == <<base_url, products, page, start_time, result, site, requested,
             raw, failed, own_elapsed, checks, checked_at, exit>>
csvVars == <<csv, links, batches, button>>

NoCsv == [columns |-> {}, rows |-> 0]

Init ==
  /\ pc = "idle"
  /\ csv = NoCsv
  /\ links = <<>>
  /\ batches = <<>>
  /\ button = FALSE
  /\ all_results = <<>>
  /\ batch_num = 0
  /\ batch_data = <<>>
  /\ i = 0
  /\ progress = <<0, 0>>
  /\ base_url = Absent
  /\ products = <<>>
  /\ page = 0
  /\ start_time = 0
  /\ now = 0
  /\ result = <<>>
  /\ exports = <<>>
  /\ message = "none"
  /\ site = 0
  /\ requested = <<>>
  /\ raw = <<>>
  /\ failed = "none"
  /\ own_elapsed = 0
  /\ checks = 0
  /\ checked_at = 0
  /\ exit = "none"
  /\ collected = <<>>
  /\ completed = <<>>

\* ------------------------------------------------------------ actions
\* Lines 73-86: a file is uploaded; the script validates it and, when the
\* link column is there, builds the batches and renders the button.
Upload ==
  /\ pc = "idle"
  /\ \E cols \in {{"link", "name"}, {"name"}}, n \in 0..MaxLinks :
       /\ csv' = [columns |-> cols, rows |-> IF "link" \in cols THEN n ELSE 0]
       /\ IF MissingLink(csv')
            THEN /\ message' = "error: no link column"
                 /\ pc' = "invalid"
                 /\ UNCHANGED <<links, batches, button>>
            ELSE /\ links' = LinkColumn(csv')
                 /\ batches' = Batches(links')
                 /\ button' = TRUE
                 /\ pc' = "ready"
                 /\ UNCHANGED message
  /\ UNCHANGED <<runVars, urlVars, now, exports, collected, completed>>

\* Lines 88-89: the button is pressed.
Click ==
  /\ pc = "ready"
  /\ button
  /\ all_results' = <<>>
  /\ batch_num' = 1
  /\ pc' = "batch"
  /\ UNCHANGED <<csvVars, batch_data, i, progress, urlVars, now, exports,
                 message, collected, completed>>

\* Lines 90-97, 47-48: the next batch is handed to process_batch.
BatchStart ==
  /\ pc = "batch"
  /\ batch_num <= num_batches
  /\ batch_data' = <<>>
  /\ i' = 1
  /\ progress' = <<0, Len(batches[batch_num])>>
  /\ pc' = "url"
  /\ UNCHANGED <<csvVars, all_results, batch_num, urlVars, now, exports,
                 message, collected, completed>>

\* Lines 49-56, 24-26: the next URL of the batch enters the collector.
UrlStart(OtherSites) ==
  /\ pc = "url"
  /\ i <= Len(batches[batch_num])
  /\ base_url' = batches[batch_num][i]
  /\ message' = "processing url"
  /\ products' = <<>>
  /\ page' = 1
  /\ start_time' = StartTime(now, start_time)
  /\ \E s \in {SitePages(base_url')} \cup OtherSites : site' = s
  /\ requested' = <<>>
  /\ raw' = <<>>
  /\ failed' = "none"
  /\ own_elapsed' = 0
  /\ checks' = 0
  /\ checked_at' = 0
  /\ exit' = "none"
  /\ pc' = "check"
  /\ UNCHANGED <<csvVars, runVars, now, result, exports, collected, completed>>

\* Lines 30-32: the budget test.
CheckBudget ==
  /\ pc = "check"
  /\ checks' = checks + 1
  /\ checked_at' = own_elapsed
  /\ IF OverBudget(now, start_time)
       THEN /\ message' = "warning: took too long"
            /\ result' = OverrunResult(products)
            /\ exit' = "budget"
            /\ pc' = "collected"
       ELSE /\ pc' = "fetch"
            /\ UNCHANGED <<message, result, exit>>
  /\ UNCHANGED <<csvVars, runVars, base_url, products, page, start_time, now,
                 exports, site, requested, raw, failed, own_elapsed,
                 collected, completed>>

\* Lines 35-44 with 8-21: one page is fetched; an empty list ends the loop,
\* stamps the products and returns them.
FetchPage(Durs, capped, pageCap) ==
  /\ pc = "fetch"
  /\ page <= pageCap
  /\ \E d \in Durs, outcome \in Outcomes :
       /\ capped => now + d <= MaxClock
       /\ now' = now + d
       /\ own_elapsed' = own_elapsed + d
       /\ requested' = Append(requested, page)
       /\ failed' = outcome
       /\ message' = IF outcome = "ok" THEN message ELSE FetchMessage(outcome)
       /\ LET page_products == FetchProducts(outcome, Body(site, base_url, page))
          IN IF page_products = <<>>
               THEN /\ result' = Stamp(products, base_url)
                    /\ exit' = "empty"
                    /\ pc' = "collected"
                    /\ UNCHANGED <<products, page, raw>>
               ELSE /\ products' = products \o page_products
                    /\ page' = page + 1
                    /\ raw' = Append(raw, page_products)
                    /\ pc' = "check"
                    /\ UNCHANGED <<result, exit>>
  /\ UNCHANGED <<csvVars, runVars, base_url, start_time, exports, site,
                 checks, checked_at, collected, completed>>

\* Lines 56-65: process_batch takes the collector's list and moves on.
Collected ==
  /\ pc = "collected"
  /\ batch_data' = IF result # <<>> THEN batch_data \o result ELSE batch_data
  /\ progress' = <<i, Len(batches[batch_num])>>
  /\ message' = "progress"
  /\ collected' = Append(collected,
                    [batch |-> batch_num, idx |-> i, url |-> base_url,
                     result |-> result])
  /\ i' = NextIndex(i)
  /\ base_url' = Absent
  /\ products' = <<>>
  /\ page' = 0
  /\ result' = <<>>
  /\ site' = 0
  /\ requested' = <<>>
  /\ raw' = <<>>
  /\ failed' = "none"
  /\ own_elapsed' = 0
  /\ checks' = 0
  /\ checked_at' = 0
  /\ exit' = "none"
  /\ pc' = "url"
  /\ UNCHANGED <<csvVars, all_results, batch_num, start_time, now, exports,
                 completed>>

\* Lines 67, 97-113: process_batch returns; the batch is added to the
\* combined list and, when it holds records, shown and offered for download.
BatchEnd ==
  /\ pc = "url"
  /\ i > Len(batches[batch_num])
  /\ all_results' = ExtendAll(all_results, batch_data)
  /\ exports' = BatchExport(exports, batch_num, batch_data)
  /\ message' = IF batch_data # <<>> THEN "success: batch completed" ELSE message
  /\ completed' = Append(completed, batch_data)
  /\ batch_num' = batch_num + 1
  /\ pc' = "batch"
  /\ UNCHANGED <<csvVars, batch_data, i, progress, urlVars, now, collected>>

\* Lines 115-124: after the last batch, the combined download.
Finish ==
  /\ pc = "batch"
  /\ batch_num > num_batches
  /\ exports' = FinalExport(exports, all_results)
  /\ pc' = "done"
  /\ UNCHANGED <<csvVars, runVars, urlVars, now, message, collected, completed>>

RunStep(OtherSites, Durs, capped, pageCap) ==
  \/ BatchStart
  \/ UrlStart(OtherSites)
  \/ CheckBudget
  \/ FetchPage(Durs, capped, pageCap)
  \/ Collected
  \/ BatchEnd
  \/ Finish

SafeStep == RunStep({}, Durations, TRUE, MaxPage + 1)

Next == Upload \/ Click \/ SafeStep

Spec == Init /\ [][Next]_vars

\* The liveness model: endpoints may never end, every fetch takes time, the
\* clock is not stopped, and the script keeps running once it was triggered.
LiveStep == RunStep({Endless}, PositiveDurations, FALSE, LivePageCap)

NextLive == Upload \/ Click \/ LiveStep

LiveSpec == Init /\ [][NextLive]_vars /\ WF_vars(LiveStep)

\* ------------------------------------------------- claims: vocabulary
Ids(recs) == [k \in 1..Len(recs) |-> recs[k].id]

AllStamped(recs, url) == \A k \in 1..Len(recs) : recs[k].source_url = url

\* Every record of pages 1..k of url, in page order.
AllPages(k, url) == Flatten([p \in 1..k |-> Catalog(url, p)])

RECURSIVE BatchLog(_, _)
\* The lists the collector returned for the URLs of batch b, concatenated.
BatchLog(log, b) ==
  IF log = <<>> THEN <<>>
  ELSE (IF Head(log).batch = b THEN Head(log).result ELSE <<>>)
         \o BatchLog(Tail(log), b)

Rows == Len(links)

\* Row of the CSV that position k of batch b must hold.
RowOf(b, k) == (b - 1) * (Rows \div 4) + k

Running == pc \in {"batch", "url", "check", "fetch", "collected"}

InBatch == pc \in {"url", "check", "fetch", "collected"}

Returned == pc = "collected"

\* The pagination ended on a page that came back empty or failed.
EndedOnEmptyPage == Returned /\ Len(requested) = Len(raw) + 1

\* ---------------------------------------------------------------- C1
\* C1 as stated: whenever the collector returns for an endpoint with k
\* non-empty pages followed by an empty one, all of whose fetches succeeded,
\* it returns the records of pages 1..k in order, each stamped with base_url.
C1_AsStated ==
  (Returned /\ failed = "ok") =>
     /\ Ids(result) = Ids(AllPages(site, base_url))
     /\ AllStamped(result, base_url)

\* C1 amended: the same, provided no budget test of that URL found the
\* elapsed time above the budget.
C1_ExactConcatenation ==
  (Returned /\ failed = "ok" /\ checked_at <= max_total_time) =>
     /\ requested = [p \in 1..(site + 1) |-> p]
     /\ Ids(result) = Ids(AllPages(site, base_url))
     /\ AllStamped(result, base_url)

C1_Witness ==
  /\ Returned /\ failed = "ok" /\ checked_at <= max_total_time
  /\ site >= 2 /\ Len(result) >= 3
  /\ \E k \in 1..Len(result) : result[k].id[3] = 2

C3_BatchesAreSlices ==
  button =>
     /\ Len(batches) = 4
     /\ \A b \in 1..4 :
          /\ Len(batches[b]) = Rows \div 4
          /\ \A k \in 1..(Rows \div 4) : batches[b][k] = links[RowOf(b, k)]
     /\ \A b1, b2 \in 1..4 : \A k1, k2 \in 1..(Rows \div 4) :
          RowOf(b1, k1) = RowOf(b2, k2) => (b1 = b2 /\ k1 = k2)
     /\ Flatten(batches) = SubSeq(links, 1, 4 * (Rows \div 4))
     /\ \A e \in 1..Len(collected) :
          /\ collected[e].batch \in 1..4
          /\ collected[e].idx \in 1..(Rows \div 4)
          /\ collected[e].url = links[RowOf(collected[e].batch, collected[e].idx)]
     /\ pc \in {"check", "fetch", "collected"} =>
          /\ batch_num \in 1..4
          /\ i \in 1..(Rows \div 4)
          /\ base_url = links[RowOf(batch_num, i)]
     /\ Rows < 4 => (collected = <<>> /\ requested = <<>> /\ now = 0)

C3_Witness ==
  /\ pc = "done"
  /\ Rows > 4 /\ Rows % 4 = 3
  /\ Len(collected) = 4
  /\ all_results # <<>>

\* ---------------------------------------------------------------- C5
NothingStarted ==
  /\ pc = "invalid"
  /\ ~button
  /\ links = <<>> /\ batches = <<>>
  /\ requested = <<>> /\ collected = <<>> /\ now = 0
  /\ all_results = <<>> /\ exports = <<>>

\* C5: once a CSV without a link column was uploaded, the validation error
\* is shown and from then on no batch exists, the button is not offered, no
\* page is fetched and nothing is exported.
C5_MissingColumnStopsRun ==
  []((pc # "idle" /\ "link" \notin csv.columns) =>
        (message = "error: no link column" /\ [](NothingStarted)))

C5_Witness ==
  pc = "invalid" /\ "link" \notin csv.columns /\ message = "error: no link column"

\* ---------------------------------------------------------------- C4
IsCombined(e) == e.file = <<"all", 0>>

\* C4 as stated: at the end of every run there is a combined export holding
\* the per-batch lists concatenated in batch order.
C4_AsStated ==
  pc = "done" =>
     \E e \in 1..Len(exports) :
        IsCombined(exports[e]) /\ exports[e].data = Flatten(completed)

\* C4 amended: at the end of a run that collected at least one record, the
\* last export is the one combined export, and it holds the per-batch lists
\* concatenated in batch order, each batch in URL-processing order; a run
\* that collected nothing has no combined export, and no combined export
\* exists before the end.
C4_CombinedExport ==
  /\ pc = "done" =>
        /\ Len(completed) = 4
        /\ \A b \in 1..4 : completed[b] = BatchLog(collected, b)
        /\ Flatten(completed) # <<>> =>
              /\ exports # <<>>
              /\ IsCombined(exports[Len(exports)])
              /\ exports[Len(exports)].data = Flatten(completed)
              /\ Cardinality({e \in 1..Len(exports) : IsCombined(exports[e])}) = 1
        /\ Flatten(completed) = <<>> => exports = <<>>
  /\ pc # "done" => \A e \in 1..Len(exports) : ~IsCombined(exports[e])

C4_Witness ==
  /\ pc = "done"
  /\ Rows \div 4 >= 2
  /\ \A b \in 1..4 : completed[b] # <<>>
  /\ Len(completed[1]) >= 5
  /\ IsCombined(exports[Len(exports)])

\* ---------------------------------------------------------------- C6
HasBatchExport(b) ==
  \E e \in 1..Len(exports) :
     exports[e].file = <<"batch", b>> /\ exports[e].data = completed[b]

\* C6 as stated: every finished batch has its export from the moment it
\* finished.
C6_AsStated == \A b \in 1..Len(completed) : HasBatchExport(b)

\* C6 amended: every finished batch that collected at least one record has
\* its export from the moment it finished, so before any URL of the next
\* batch is fetched; a finished batch without records has none.
C6_IncrementalExports ==
  /\ (Running \/ pc = "done") => Len(completed) = batch_num - 1
  /\ \A b \in 1..Len(completed) :
        /\ completed[b] # <<>> => HasBatchExport(b)
        /\ completed[b] = <<>> =>
              \A e \in 1..Len(exports) : exports[e].file # <<"batch", b>>

C6_Witness ==
  /\ pc = "fetch" /\ batch_num = 4 /\ i = 1 /\ requested = <<>>
  /\ \A b \in 1..3 : completed[b] # <<>> /\ HasBatchExport(b)

\* ---------------------------------------------------------------- C7
RunsOn == ENABLED SafeStep

C8_FailedPageEndsLikeEmptyPage ==
  /\ EndedOnEmptyPage =>
        /\ requested = [p \in 1..(Len(raw) + 1) |-> p]
        /\ Ids(result) = Ids(Flatten(raw))
        /\ AllStamped(result, base_url)
  /\ pc \in {"check", "fetch"} =>
        /\ failed \in {"ok", "none"}
        /\ Len(requested) = Len(raw)
  /\ (Returned /\ failed # "ok") =>
        /\ EndedOnEmptyPage
        /\ message \in {"warning: page timed out", "error: request failed"}

C8_Witness ==
  /\ Returned /\ failed = "timeout" /\ own_elapsed <= max_total_time
  /\ Len(raw) = 1 /\ site >= 2
  /\ Len(result) = 2

\* ---------------------------------------------------------------- C9
\* C9: every iteration tests the budget once, before its fetch; no fetch
\* starts with the elapsed time above the budget; and when the time runs
\* over during the fetch that comes back empty or failed, no further test
\* is made and the accumulated records are returned.
C9_BudgetTestedBeforeFetchOnly ==
  /\ pc = "check" => checks = Len(requested)
  /\ pc = "fetch" =>
        /\ checks = Len(requested) + 1
        /\ checked_at = own_elapsed
        /\ own_elapsed <= max_total_time
        /\ now - start_time <= max_total_time
  /\ Returned => checks = Len(raw) + 1
  /\ (EndedOnEmptyPage /\ own_elapsed > max_total_time) =>
        /\ checked_at <= max_total_time
        /\ Ids(result) = Ids(Flatten(raw))
        /\ message # "warning: took too long"

C9_Witness ==
  /\ EndedOnEmptyPage /\ own_elapsed > max_total_time
  /\ result # <<>>

\* --------------------------------------------------------------- C10
\* Entry e of the log is position ((e-1) % size) + 1 of batch
\* ((e-1) \div size) + 1: batches in order, every URL once, in list order.
LogInOrder ==
  \A e \in 1..Len(collected) :
     /\ Rows \div 4 > 0
     /\ collected[e].batch = ((e - 1) \div (Rows \div 4)) + 1
     /\ collected[e].idx = ((e - 1) % (Rows \div 4)) + 1
     /\ collected[e].url = batches[collected[e].batch][collected[e].idx]

C10_Safety ==
  /\ LogInOrder
  /\ InBatch => Len(collected) = (batch_num - 1) * (Rows \div 4) + i - 1
  /\ pc = "done" => Len(collected) = 4 * (Rows \div 4)
  /\ pc = "fetch" => page < LivePageCap

\* C10: once triggered, the run reaches Done, having processed the batches
\* in order and each URL of a batch once in list order, when every fetch
\* takes a positive time, also for endpoints that never return an empty page.
C10_RunReachesDone ==
  /\ Running ~> (pc = "done")
  /\ []C10_Safety

\* The last URL of the last batch is an endpoint that never ends, cut off
\* by the budget after two pages.
C10_Witness ==
  /\ Returned /\ site = Endless /\ exit = "budget" /\ Len(raw) >= 2
  /\ batch_num = 4 /\ i = Rows \div 4 /\ i >= 2

====
